---- MODULE Spec2Model ----
(***************************************************************************)
(* Model of src/main.py: the supervisor loop run_discord_bot, which owns   *)
(* one bot connection at a time, and the status reporter (the Flask        *)
(* handlers of run_web_server), which samples the shared state.            *)
(*                                                                         *)
(* Time.  The program reads the clock only to take differences             *)
(* (datetime.now() - t).total_seconds() that it compares with 600 and 120. *)
(* A timestamp is therefore kept as the number of whole seconds elapsed    *)
(* since it was taken: "t = datetime.now()" stores 0, Elapse adds to every *)
(* stored timestamp, and "(datetime.now() - t).total_seconds()" is the     *)
(* stored value.  Stored values saturate at a horizon above the threshold  *)
(* they are compared with.  NoTime stands for Python's None.               *)
(***************************************************************************)
EXTENDS Integers, FiniteSets, Sequences, TLC

\* ------------------------------------------------------------------------
\* Bounds of the model (not program constants)
\* ------------------------------------------------------------------------
MaxRetry == 9            \* SpecSup: transient failures are injected while retry_count < MaxRetry
MaxRetryFull == 1        \* the same for Spec
FatalHorizon == 665      \* saturation of the age of last_fatal_error_time
StatusHorizon == 121     \* saturation of app_start_time / offline_since ages
DisplayHorizon == 0      \* saturation of the ages of first_online_time and last_update
NumReporters == 1        \* reporter request threads of Spec
MaxReconnect == 1        \* the bot gets ready while reconnect_count < MaxReconnect
Quantum == 30            \* Spec: a sleep loop taken in one step lasts a multiple of Quantum

\* ------------------------------------------------------------------------
\* Program constants
\* ------------------------------------------------------------------------
base_delay == 2
max_delay == 300
max_exponent == 8
recovery_threshold == 600
fatal_wait_seconds == 30
grace_period == 120
threads == 4             \* request threads of the web server (line 656)
NoTime == -1

None == "None"
Sup == 0
Reporters == 1..NumReporters

\* random.uniform(0.8, 1.2), in percent
Jitters == {80, 100, 120}

\* Seconds the environment lets pass at a time while the bot's run blocks
RunSeconds == {fatal_wait_seconds}

Routes == {"/", "/health", "/api/status", "/ready", "/ping"}

VARIABLES
    pc,                     \* position of the supervisor thread
    i,                      \* iterations left of the current sleep loop
    retry_count,
    current_fatal_state,    \* local copy taken at line 83 / 135
    bot_module,             \* TRUE when the local name is bound to the module
    discord_module,
    BotConfigurationError,  \* "Exception" (fallback of line 57) or "bot"
    error_type,             \* class of the exception being handled (lines 159, 167-169)
    fatal_error_state,
    last_fatal_error_time,
    current_bot_instance,   \* None or "bot"
    bot_ready,              \* is_ready() of the most recently created bot
    fatal_error_lock,       \* set of holders (empty or one thread)
    bot_status_lock,
    shutdown_event,
    app_start_time,
    prereq,                 \* environment: TRUE once bot, discord, token and login are all fine
    fault_cap,              \* environment: no transient failure once retry_count reaches it
    bot_status,             \* the reporter's status record (lines 220-228)
    bot_status_data_lock,
    rpc,                    \* position of each reporter thread
    route,                  \* the route it serves
    u_fatal,                \* update_bot_status: current_fatal_state (line 475)
    bot_instance,           \* update_bot_status: bot_instance (line 490)
    h_fatal,                \* health_check: current_fatal_state (line 551)
    h_time,                 \* health_check: error_time (line 552)
    h_online,               \* handler: bot_online (lines 563, 618)
    status,                 \* HTTP status of the response, 0 before there is one
    serving                 \* main: run_web_server is serving requests (line 680)

supVars == <<pc, i, retry_count, current_fatal_state, bot_module, discord_module,
             BotConfigurationError, error_type>>
sharedVars == <<fatal_error_state, last_fatal_error_time, current_bot_instance,
                bot_ready, fatal_error_lock, bot_status_lock, shutdown_event,
                app_start_time>>
repVars == <<bot_status, bot_status_data_lock, rpc, route, u_fatal, bot_instance,
             h_fatal, h_time, h_online, status, serving>>
vars == <<supVars, sharedVars, prereq, fault_cap, repVars>>

Min(a, b) == IF a < b THEN a ELSE b

RECURSIVE Pow2(_)
Pow2(n) == IF n = 0 THEN 1 ELSE 2 * Pow2(n - 1)

\* ------------------------------------------------------------------------
\* Time
\* ------------------------------------------------------------------------
Aged(t, d, horizon) == IF t = NoTime THEN NoTime ELSE Min(t + d, horizon)

\* d seconds pass
Elapse(d) ==
    /\ last_fatal_error_time' = Aged(last_fatal_error_time, d, FatalHorizon)
    /\ app_start_time' = Aged(app_start_time, d, StatusHorizon)
    /\ bot_status' = [bot_status EXCEPT
            !.offline_since = Aged(@, d, StatusHorizon),
            !.first_online_time = Aged(@, d, DisplayHorizon),
            !.last_update = Aged(@, d, DisplayHorizon)]

\* ------------------------------------------------------------------------
\* Backoff (lines 186-188, 196)
\* ------------------------------------------------------------------------
\* Positions of the supervisor between two attempts: the fatal wait of lines
\* 140-143 and the backoff sleep of lines 196-199
BetweenAttempts == {"fatal_wait", "backoff"}

\* Positions from which the loop is left without another look at the fatal
\* error and without another attempt, once shutdown_event is set: the sleeps,
\* a run and its exception handlers, finally and the loop test
WindingDown ==
    BetweenAttempts \cup
    {"run", "cfg_err", "cfg_err2", "login_err", "login_err2", "transient",
     "after_exc", "finally", "finally_break", "loop", "stopped", "done"}

\* Mutant: the cap of line 186 forgotten
WaitTimeUncapped(rc) == base_delay * Pow2(Min(rc, max_exponent))

WaitTime(rc) == Min(base_delay * Pow2(Min(rc, max_exponent)), max_delay)

\* int(wait_time * jitter)
BackoffSeconds(rc, jitter) == (WaitTime(rc) * jitter) \div 100

\* ------------------------------------------------------------------------
\* Exception dispatch of the try statement (lines 159, 167, 170, 176)
\* ------------------------------------------------------------------------
Handler(e) ==
    IF BotConfigurationError = "Exception" \/ e = "BotConfigurationError"
    THEN "cfg_err"
    ELSE IF e = "LoginFailure" THEN "login_err" ELSE "transient"

\* An exception the environment may raise now: one that would count as a
\* transient failure is injected only while retry_count < fault_cap
Injected(e) == IF Handler(e) = "transient" /\ retry_count >= fault_cap THEN {} ELSE {e}

\* ------------------------------------------------------------------------
\* Writing the fatal error under fatal_error_lock: two assignments
\* ------------------------------------------------------------------------
AcquireFatalLock(t) ==
    /\ fatal_error_lock = {}
    /\ fatal_error_lock' = {t}

\* with fatal_error_lock: fatal_error_state = ...  The exception that led
\* here is only logged from now on
FatalWrite1(from, kind, to) ==
    /\ pc = from
    /\ AcquireFatalLock(Sup)
    /\ fatal_error_state' = kind
    /\ error_type' = None
    /\ pc' = to
    /\ UNCHANGED <<i, retry_count, current_fatal_state, bot_module, discord_module,
                   BotConfigurationError, last_fatal_error_time, current_bot_instance,
                   bot_ready, bot_status_lock, shutdown_event, app_start_time, prereq, fault_cap>>
    /\ UNCHANGED repVars

\* last_fatal_error_time = datetime.now(), leaving the with block
FatalWrite2(from, to) ==
    /\ pc = from
    /\ last_fatal_error_time' = 0
    /\ fatal_error_lock' = {}
    /\ pc' = to
    /\ UNCHANGED <<i, retry_count, current_fatal_state, bot_module, discord_module,
                   BotConfigurationError, error_type, fatal_error_state, current_bot_instance,
                   bot_ready, bot_status_lock, shutdown_event, app_start_time, prereq, fault_cap>>
    /\ UNCHANGED repVars

\* ------------------------------------------------------------------------
\* Start of run_discord_bot (lines 56-77)
\* ------------------------------------------------------------------------
\* Which of the three import statements of lines 61-63 raises ImportError
ImportOutcomes == IF prereq THEN {"ok"} ELSE {"ok", "no_bot", "no_name", "no_discord"}

ImportBot ==
    /\ pc = "import"
    /\ \E o \in ImportOutcomes :
        /\ bot_module' = (o # "no_bot")
        /\ BotConfigurationError' = IF o \in {"ok", "no_discord"} THEN "bot" ELSE "Exception"
        /\ discord_module' = (o = "ok")
        /\ pc' = IF o = "ok" THEN "check_token" ELSE "import_err"
    /\ UNCHANGED <<i, retry_count, current_fatal_state, error_type, sharedVars, prereq,
                   fault_cap>>
    /\ UNCHANGED repVars

ImportErr1 == FatalWrite1("import_err", "Import error", "import_err2")
ImportErr2 == FatalWrite2("import_err2", "check_token")

\* if bot_module and not bot_module.check_token()
CheckToken ==
    /\ pc = "check_token"
    /\ \E token \in IF prereq THEN {TRUE} ELSE BOOLEAN :
        pc' = IF bot_module /\ ~token THEN "token_err" ELSE "loop"
    /\ UNCHANGED <<i, retry_count, current_fatal_state, bot_module, discord_module,
                   BotConfigurationError, error_type, sharedVars, prereq, fault_cap>>
    /\ UNCHANGED repVars

TokenErr1 == FatalWrite1("token_err", "Token Discord manquant", "token_err2")
TokenErr2 == FatalWrite2("token_err2", "loop")

\* ------------------------------------------------------------------------
\* The supervisor loop (lines 79-205)
\* ------------------------------------------------------------------------
\* while not shutdown_event.is_set()
LoopTest ==
    /\ pc = "loop"
    /\ pc' = IF shutdown_event THEN "stopped" ELSE "fatal_check"
    /\ UNCHANGED <<i, retry_count, current_fatal_state, bot_module, discord_module,
                   BotConfigurationError, error_type, sharedVars, prereq, fault_cap>>
    /\ UNCHANGED repVars

\* Mutant: recovery tried only at the first fatal check past the threshold
RecoveryDueOnce(state, error_time) ==
    /\ state # None
    /\ error_time # NoTime
    /\ error_time > recovery_threshold
    /\ error_time <= recovery_threshold + fatal_wait_seconds

\* Mutant: recovery already at 600 s
RecoveryDueAtThreshold(state, error_time) ==
    /\ state # None
    /\ error_time # NoTime
    /\ error_time >= recovery_threshold

\* time_since_error > 600 for the pair read at lines 83-84
RecoveryDue(state, error_time) ==
    /\ state # None
    /\ error_time # NoTime
    /\ error_time > recovery_threshold

\* Lines 82-89 and, when no recovery is due, line 135 and the end of the with
\* block.  When a recovery is due the lock stays held over the preflight.
FatalCheck ==
    /\ pc = "fatal_check"
    /\ fatal_error_lock = {}
    /\ current_fatal_state' = fatal_error_state
    /\ IF RecoveryDue(fatal_error_state, last_fatal_error_time)
       THEN /\ fatal_error_lock' = {Sup}
            /\ pc' = "preflight"
       ELSE /\ fatal_error_lock' = {}
            /\ pc' = "after_check"
    /\ UNCHANGED <<i, retry_count, bot_module, discord_module, BotConfigurationError, error_type,
                   fatal_error_state, last_fatal_error_time, current_bot_instance,
                   bot_ready, bot_status_lock, shutdown_event, app_start_time, prereq, fault_cap>>
    /\ UNCHANGED repVars

\* Lines 92-109: re-import when the state names an import error, check the
\* modules and the token, create the test bot.  Goes on to the login
\* handshake only when all of it passed; any exception leaves the state alone.
Preflight ==
    /\ pc = "preflight"
    /\ \E o \in IF current_fatal_state = "Import error" THEN ImportOutcomes ELSE {"skip"},
          token \in IF prereq THEN {TRUE} ELSE BOOLEAN,
          created \in IF prereq THEN {TRUE} ELSE BOOLEAN :
        /\ bot_module' = IF o \in {"skip", "no_bot"} THEN bot_module ELSE TRUE
        /\ discord_module' = IF o = "ok" THEN TRUE ELSE discord_module
        /\ pc' = IF /\ o \in {"skip", "ok"}
                    /\ bot_module' /\ discord_module'
                    /\ token /\ created
                 THEN "handshake" ELSE "pf_end"
    /\ UNCHANGED <<i, retry_count, current_fatal_state, BotConfigurationError, error_type,
                   sharedVars, prereq, fault_cap>>
    /\ UNCHANGED repVars

\* Lines 113-119: asyncio.run(test_login()), a network round trip
Handshake ==
    /\ pc = "handshake"
    /\ \E ok \in IF prereq THEN {TRUE} ELSE BOOLEAN :
        pc' = IF ok THEN "pf_clear1" ELSE "pf_end"
    /\ UNCHANGED <<i, retry_count, current_fatal_state, bot_module, discord_module,
                   BotConfigurationError, error_type, sharedVars, prereq, fault_cap>>
    /\ UNCHANGED repVars

\* Mutant: the with block of line 82 ends before the state is cleared, so the
\* two assignments of lines 122-123 are made without the lock
PfClear1Unlocked ==
    /\ pc = "pf_clear1"
    /\ fatal_error_state' = None
    /\ fatal_error_lock' = {}
    /\ pc' = "pf_clear2"
    /\ UNCHANGED <<i, retry_count, current_fatal_state, bot_module, discord_module,
                   BotConfigurationError, error_type, last_fatal_error_time, current_bot_instance,
                   bot_ready, bot_status_lock, shutdown_event,
                   app_start_time, prereq, fault_cap>>
    /\ UNCHANGED repVars

\* Line 122
PfClear1 ==
    /\ pc = "pf_clear1"
    /\ fatal_error_state' = None
    /\ pc' = "pf_clear2"
    /\ UNCHANGED <<i, retry_count, current_fatal_state, bot_module, discord_module,
                   BotConfigurationError, error_type, last_fatal_error_time, current_bot_instance,
                   bot_ready, fatal_error_lock, bot_status_lock, shutdown_event,
                   app_start_time, prereq, fault_cap>>
    /\ UNCHANGED repVars

\* Lines 123-124
PfClear2 ==
    /\ pc = "pf_clear2"
    /\ last_fatal_error_time' = NoTime
    /\ retry_count' = 0
    /\ pc' = "pf_end"
    /\ UNCHANGED <<i, current_fatal_state, bot_module, discord_module,
                   BotConfigurationError, error_type, fatal_error_state, current_bot_instance,
                   bot_ready, fatal_error_lock, bot_status_lock, shutdown_event,
                   app_start_time, prereq, fault_cap>>
    /\ UNCHANGED repVars

\* Mutant: after the preflight the supervisor takes the recovery for granted
\* instead of re-reading fatal_error_state
PfEndAssumeRecovered ==
    /\ pc = "pf_end"
    /\ current_fatal_state' = None
    /\ fatal_error_lock' = fatal_error_lock \ {Sup}
    /\ pc' = "after_check"
    /\ UNCHANGED <<i, retry_count, bot_module, discord_module, BotConfigurationError,
                   error_type, fatal_error_state, last_fatal_error_time,
                   current_bot_instance, bot_ready, bot_status_lock, shutdown_event,
                   app_start_time, prereq, fault_cap>>
    /\ UNCHANGED repVars

\* Line 135 and the end of the with block of line 82
PfEnd ==
    /\ pc = "pf_end"
    /\ current_fatal_state' = fatal_error_state
    /\ fatal_error_lock' = fatal_error_lock \ {Sup}
    /\ pc' = "after_check"
    /\ UNCHANGED <<i, retry_count, bot_module, discord_module, BotConfigurationError, error_type,
                   fatal_error_state, last_fatal_error_time, current_bot_instance,
                   bot_ready, bot_status_lock, shutdown_event, app_start_time, prereq, fault_cap>>
    /\ UNCHANGED repVars

\* Lines 138-140 / 146
AfterCheck ==
    /\ pc = "after_check"
    /\ IF current_fatal_state # None
       THEN pc' = "fatal_wait" /\ i' = fatal_wait_seconds
       ELSE pc' = "connect" /\ i' = i
    /\ UNCHANGED <<retry_count, current_fatal_state, bot_module, discord_module,
                   BotConfigurationError, error_type, sharedVars, prereq, fault_cap>>
    /\ UNCHANGED repVars

\* Mutant: the sleep loop without the test of lines 141 / 197
SleepLoopDeaf(at, k, d) ==
    /\ pc = at
    /\ k >= 1 /\ k <= i
    /\ d >= k
    /\ i' = i - k
    /\ Elapse(d)
    /\ UNCHANGED <<pc, retry_count, current_fatal_state, bot_module, discord_module,
                   BotConfigurationError, error_type, fatal_error_state, current_bot_instance,
                   bot_ready, fatal_error_lock, bot_status_lock, shutdown_event, prereq, fault_cap>>
    /\ UNCHANGED <<bot_status_data_lock, rpc, route, u_fatal, bot_instance,
                   h_fatal, h_time, h_online, status, serving>>

\* k iterations of "if shutdown_event.is_set(): break; time.sleep(1)", which
\* take d seconds
SleepLoop(at, k, d) ==
    /\ pc = at
    /\ ~shutdown_event
    /\ k >= 1 /\ k <= i
    /\ d >= k
    /\ i' = i - k
    /\ Elapse(d)
    /\ UNCHANGED <<pc, retry_count, current_fatal_state, bot_module, discord_module,
                   BotConfigurationError, error_type, fatal_error_state, current_bot_instance,
                   bot_ready, fatal_error_lock, bot_status_lock, shutdown_event, prereq, fault_cap>>
    /\ UNCHANGED <<bot_status_data_lock, rpc, route, u_fatal, bot_instance,
                   h_fatal, h_time, h_online, status, serving>>

\* The loop is over (range exhausted) or left by break
SleepLoopExit(at, to) ==
    /\ pc = at
    /\ i = 0 \/ shutdown_event
    /\ pc' = to
    /\ i' = 0
    /\ UNCHANGED <<retry_count, current_fatal_state, bot_module, discord_module,
                   BotConfigurationError, error_type, sharedVars, prereq, fault_cap>>
    /\ UNCHANGED repVars

\* Lines 140-143, one iteration
FatalWaitSleep == SleepLoop("fatal_wait", 1, 1)
\* Line 144: continue (through finally)
FatalWaitExit == SleepLoopExit("fatal_wait", "finally")

\* What bot_module.create_bot() can do
CreateOutcomes ==
    IF prereq THEN {"ok"}
    ELSE {"ok", "BotConfigurationError"} \cup Injected("Other")

\* Lines 147-154.  "bot" names the object created last; a reporter that still
\* holds a reference to the previous object holds a closed bot from now on.
Connect ==
    /\ pc = "connect"
    /\ IF ~bot_module \/ ~discord_module
       THEN /\ pc' = Handler("Other")
            /\ error_type' = "Other"
            /\ UNCHANGED <<current_bot_instance, bot_ready, bot_instance>>
       ELSE /\ bot_status_lock = {}
            /\ \E o \in CreateOutcomes :
                IF o = "ok"
                THEN /\ current_bot_instance' = "bot"
                     /\ bot_ready' = FALSE
                     /\ bot_instance' = [r \in DOMAIN bot_instance |->
                            IF bot_instance[r] = "bot" THEN "closed" ELSE bot_instance[r]]
                     /\ error_type' = error_type
                     /\ pc' = "run"
                ELSE /\ pc' = Handler(o)
                     /\ error_type' = o
                     /\ UNCHANGED <<current_bot_instance, bot_ready, bot_instance>>
    /\ UNCHANGED <<i, retry_count, current_fatal_state, bot_module, discord_module,
                   BotConfigurationError, fatal_error_state, last_fatal_error_time,
                   fatal_error_lock, bot_status_lock, shutdown_event, app_start_time,
                   prereq, fault_cap>>
    /\ UNCHANGED <<bot_status, bot_status_data_lock, rpc, route, u_fatal,
                   h_fatal, h_time, h_online, status, serving>>

\* How current_bot_instance.run(...) can end: it returns or raises.  A login
\* failure precedes readiness and is excluded once the prerequisites hold.
RunOutcomes ==
    {"return", "BotConfigurationError"}
    \cup Injected("Other")
    \cup (IF prereq \/ bot_ready THEN {} ELSE {"LoginFailure"})

\* Line 157 returns or raises; the bot is closed and no longer ready
RunEnds ==
    /\ pc = "run"
    /\ \E o \in RunOutcomes :
        /\ pc' = IF o = "return" THEN "finally" ELSE Handler(o)
        /\ error_type' = IF o = "return" THEN error_type ELSE o
    /\ bot_ready' = FALSE
    /\ UNCHANGED <<i, retry_count, current_fatal_state, bot_module, discord_module,
                   BotConfigurationError, fatal_error_state, last_fatal_error_time,
                   current_bot_instance, fatal_error_lock, bot_status_lock,
                   shutdown_event, app_start_time, prereq, fault_cap>>
    /\ UNCHANGED repVars

\* Lines 159-165
CfgErr1 == FatalWrite1("cfg_err", "Configuration error", "cfg_err2")
\* Mutant: break after a configuration error
CfgErr2Break == FatalWrite2("cfg_err2", "finally_break")
CfgErr2 == FatalWrite2("cfg_err2", "finally")

\* Lines 170-175
LoginErr1 == FatalWrite1("login_err", "Invalid token", "login_err2")
LoginErr2 == FatalWrite2("login_err2", "after_exc")

\* Line 177
Transient ==
    /\ pc = "transient"
    /\ retry_count' = retry_count + 1
    /\ error_type' = None
    /\ pc' = "after_exc"
    /\ UNCHANGED <<i, current_fatal_state, bot_module, discord_module,
                   BotConfigurationError, sharedVars, prereq, fault_cap>>
    /\ UNCHANGED repVars

\* Lines 182-188: break on shutdown, else draw the jitter and the number of
\* one-second sleeps
AfterExc ==
    /\ pc = "after_exc"
    /\ IF shutdown_event
       THEN pc' = "finally_break" /\ i' = i
       ELSE \E jitter \in Jitters :
              /\ i' = BackoffSeconds(retry_count, jitter)
              /\ pc' = "backoff"
    /\ UNCHANGED <<retry_count, current_fatal_state, bot_module, discord_module,
                   BotConfigurationError, error_type, sharedVars, prereq, fault_cap>>
    /\ UNCHANGED repVars

\* Lines 196-199, one iteration
BackoffSleep == SleepLoop("backoff", 1, 1)
BackoffExit == SleepLoopExit("backoff", "finally")

\* Lines 200-203: with bot_status_lock: current_bot_instance = None
ClearInstance(from, to) ==
    /\ pc = from
    /\ bot_status_lock = {}
    /\ current_bot_instance' = None
    /\ pc' = to
    /\ UNCHANGED <<i, retry_count, current_fatal_state, bot_module, discord_module,
                   BotConfigurationError, error_type, fatal_error_state, last_fatal_error_time,
                   bot_ready, fatal_error_lock, bot_status_lock, shutdown_event,
                   app_start_time, prereq, fault_cap>>
    /\ UNCHANGED repVars

Finally == ClearInstance("finally", "loop")
\* finally on the way out of the loop by break (line 183)
FinallyBreak == ClearInstance("finally_break", "stopped")

\* Line 205
Stopped ==
    /\ pc = "stopped"
    /\ pc' = "done"
    /\ UNCHANGED <<i, retry_count, current_fatal_state, bot_module, discord_module,
                   BotConfigurationError, error_type, sharedVars, prereq, fault_cap>>
    /\ UNCHANGED repVars

\* ------------------------------------------------------------------------
\* Environment
\* ------------------------------------------------------------------------
\* signal_handler (SIGTERM / SIGINT)
Signal ==
    /\ ~shutdown_event
    /\ shutdown_event' = TRUE
    /\ UNCHANGED <<supVars, fatal_error_state, last_fatal_error_time,
                   current_bot_instance, bot_ready, fatal_error_lock, bot_status_lock,
                   app_start_time, prereq, fault_cap>>
    /\ UNCHANGED repVars

\* The running bot becomes ready / loses its connection (is_ready())
BotReady ==
    /\ pc = "run"
    /\ bot_ready \/ bot_status.reconnect_count < MaxReconnect
    /\ bot_ready' = ~bot_ready
    /\ UNCHANGED <<supVars, fatal_error_state, last_fatal_error_time,
                   current_bot_instance, fatal_error_lock, bot_status_lock,
                   shutdown_event, app_start_time, prereq, fault_cap>>
    /\ UNCHANGED repVars

\* The deployment is repaired: from now on the imports, the token check,
\* create_bot and the login handshake succeed
Repair ==
    /\ ~prereq
    /\ prereq' = TRUE
    /\ UNCHANGED <<supVars, sharedVars, fault_cap>>
    /\ UNCHANGED repVars

\* Time passes while run blocks
RunElapse ==
    /\ pc = "run"
    /\ \E d \in RunSeconds : Elapse(d)
    /\ UNCHANGED <<supVars, fatal_error_state, current_bot_instance, bot_ready,
                   fatal_error_lock, bot_status_lock, shutdown_event, prereq, fault_cap>>
    /\ UNCHANGED <<bot_status_data_lock, rpc, route, u_fatal, bot_instance,
                   h_fatal, h_time, h_online, status, serving>>

\* ------------------------------------------------------------------------
\* The status reporter (run_web_server, lines 467-640)
\* ------------------------------------------------------------------------
\* main (lines 672-680): the supervisor thread has been started; three
\* seconds later run_web_server() is called and serves until the process ends
MainServe ==
    /\ ~serving
    /\ serving' = TRUE
    /\ UNCHANGED <<supVars, sharedVars, prereq, fault_cap, bot_status, bot_status_data_lock,
                   rpc, route, u_fatal, bot_instance, h_fatal, h_time, h_online, status>>

\* A request arrives on a free thread; /ping answers at once (lines 633-640),
\* every other route starts with update_bot_status(), which does not look at
\* the route: which of them it is, is drawn when update_bot_status returns
StartRequest(r) ==
    /\ serving
    /\ rpc[r] = "idle"
    /\ \E ping \in BOOLEAN :
        /\ route' = [route EXCEPT ![r] = IF ping THEN "/ping" ELSE "update"]
        /\ rpc' = [rpc EXCEPT ![r] = IF ping THEN "respond" ELSE "u_fatal"]
        /\ status' = [status EXCEPT ![r] = IF ping THEN 200 ELSE 0]
    /\ UNCHANGED <<supVars, sharedVars, prereq, fault_cap, serving, bot_status,
                   bot_status_data_lock,
                   u_fatal, bot_instance, h_fatal, h_time, h_online>>

\* Mutant: the status refresh clears a fatal error that is old enough, as the
\* docstring of line 468 announces
UpdateReadFatalRecovering(r) ==
    /\ rpc[r] = "u_fatal"
    /\ fatal_error_lock = {}
    /\ IF RecoveryDue(fatal_error_state, last_fatal_error_time)
       THEN /\ fatal_error_state' = None
            /\ last_fatal_error_time' = NoTime
       ELSE /\ fatal_error_state' = fatal_error_state
            /\ last_fatal_error_time' = last_fatal_error_time
    /\ u_fatal' = [u_fatal EXCEPT ![r] = fatal_error_state']
    /\ rpc' = [rpc EXCEPT ![r] = "u_lock"]
    /\ UNCHANGED <<supVars, current_bot_instance, bot_ready, fatal_error_lock,
                   bot_status_lock, shutdown_event, app_start_time, prereq, fault_cap,
                   bot_status, bot_status_data_lock,
                   route, bot_instance, h_fatal, h_time, h_online, status, serving>>

\* Lines 474-475: with fatal_error_lock: current_fatal_state = fatal_error_state
UpdateReadFatal(r) ==
    /\ rpc[r] = "u_fatal"
    /\ fatal_error_lock = {}
    /\ u_fatal' = [u_fatal EXCEPT ![r] = fatal_error_state]
    /\ rpc' = [rpc EXCEPT ![r] = "u_lock"]
    /\ UNCHANGED <<supVars, sharedVars, prereq, fault_cap, bot_status, bot_status_data_lock,
                   route, bot_instance, h_fatal, h_time, h_online, status, serving>>

\* Lines 481-486: the record when a fatal error was sampled
StatusOnFatal(st, fatal) ==
    [st EXCEPT !.offline_since = IF st.online THEN 0 ELSE @,
               !.online = FALSE,
               !.bot_name = fatal,
               !.servers = 0]

\* Lines 493-502: the bot instance reports ready
StatusOnReady(st) ==
    [st EXCEPT !.first_online_time = IF ~st.online /\ @ = NoTime THEN 0 ELSE @,
               !.offline_since = IF ~st.online THEN NoTime ELSE @,
               !.online = TRUE,
               !.bot_name = "user",
               !.servers = 1]

\* Mutant: a reconnect counted at every refresh that finds the bot not ready
StatusOnNotReadyCounting(st) ==
    [st EXCEPT !.offline_since = IF st.online THEN 0
                                 ELSE IF @ = NoTime THEN app_start_time ELSE @,
               !.reconnect_count = @ + 1,
               !.online = FALSE,
               !.bot_name = "Bot Discord",
               !.servers = 0]

\* Lines 504-514: no instance, or one that is not ready
StatusOnNotReady(st) ==
    [st EXCEPT !.offline_since = IF st.online THEN 0
                                 ELSE IF @ = NoTime THEN app_start_time ELSE @,
               !.reconnect_count = IF st.online THEN @ + 1 ELSE @,
               !.online = FALSE,
               !.bot_name = "Bot Discord",
               !.servers = 0]

\* Lines 493-500 and what follows up to an exception raised by the statement
\* of the given line: str(bot_instance.user) of line 501 or
\* len(bot_instance.guilds) of line 502
StatusOnReadyUntil(st, line) ==
    [StatusOnReady(st) EXCEPT !.bot_name = IF line > 501 THEN "user" ELSE st.bot_name,
                              !.servers = st.servers]

\* Mutant: line 523 forgotten
StatusOnExceptionKeepingOnline(st) ==
    [st EXCEPT !.offline_since = IF st.online THEN 0 ELSE @]

\* Lines 521-523: the exception handler
StatusOnException(st) ==
    [st EXCEPT !.offline_since = IF st.online THEN 0 ELSE @,
               !.online = FALSE]

\* Line 516
Stamped(st) == [st EXCEPT !.last_update = 0]

\* Line 478: with bot_status_data_lock; with a fatal error sampled, lines
\* 480-486 and 516 follow, the lock is released and nothing is left to do
\* but return (the locals are dead)
UpdateLock(r) ==
    /\ rpc[r] = "u_lock"
    /\ bot_status_data_lock = {}
    /\ IF u_fatal[r] # None
       THEN /\ bot_status' = Stamped(StatusOnFatal(bot_status, u_fatal[r]))
            /\ bot_status_data_lock' = {}
            /\ u_fatal' = [u_fatal EXCEPT ![r] = None]
            /\ rpc' = [rpc EXCEPT ![r] = "u_done"]
       ELSE /\ bot_status' = bot_status
            /\ bot_status_data_lock' = {r}
            /\ u_fatal' = u_fatal
            /\ rpc' = [rpc EXCEPT ![r] = "u_inst"]
    /\ UNCHANGED <<supVars, sharedVars, prereq, fault_cap, route, bot_instance,
                   h_fatal, h_time, h_online, status, serving>>

\* Line 489: with bot_status_lock (inside the data lock)
UpdateLockInstance(r) ==
    /\ rpc[r] = "u_inst"
    /\ bot_status_lock = {}
    /\ bot_status_lock' = {r}
    /\ rpc' = [rpc EXCEPT ![r] = "u_inst_read"]
    /\ UNCHANGED <<supVars, fatal_error_state, last_fatal_error_time,
                   current_bot_instance, bot_ready, fatal_error_lock, shutdown_event,
                   app_start_time, prereq, fault_cap, bot_status, bot_status_data_lock,
                   route,
                   u_fatal, bot_instance, h_fatal, h_time, h_online, status, serving>>

\* Line 490: bot_instance = current_bot_instance, and the lock is released
UpdateReadInstance(r) ==
    /\ rpc[r] = "u_inst_read"
    /\ bot_instance' = [bot_instance EXCEPT ![r] = current_bot_instance]
    /\ bot_status_lock' = bot_status_lock \ {r}
    /\ rpc' = [rpc EXCEPT ![r] = "u_ready"]
    /\ UNCHANGED <<supVars, fatal_error_state, last_fatal_error_time,
                   current_bot_instance, bot_ready, fatal_error_lock, shutdown_event,
                   app_start_time, prereq, fault_cap, bot_status, bot_status_data_lock,
                   route,
                   u_fatal, h_fatal, h_time, h_online, status, serving>>

\* bot_instance and bot_instance.is_ready() (line 492)
IsReady(ref) == ref = "bot" /\ bot_ready

\* Lines 492-516, and the data lock is released
UpdateWrite(r) ==
    /\ rpc[r] = "u_ready"
    /\ bot_status' = Stamped(IF IsReady(bot_instance[r])
                             THEN StatusOnReady(bot_status)
                             ELSE StatusOnNotReady(bot_status))
    /\ bot_status_data_lock' = bot_status_data_lock \ {r}
    /\ bot_instance' = [bot_instance EXCEPT ![r] = None]
    /\ rpc' = [rpc EXCEPT ![r] = "u_done"]
    /\ UNCHANGED <<supVars, sharedVars, prereq, fault_cap, route, u_fatal,
                   h_fatal, h_time, h_online, status, serving>>

\* Mutant: the exception is handled inside the with block of line 478, with
\* bot_status_data_lock still held
UpdateRaiseHolding(r) ==
    /\ rpc[r] = "u_ready"
    /\ bot_instance[r] # None
    /\ bot_status_data_lock' = bot_status_data_lock
    /\ bot_instance' = [bot_instance EXCEPT ![r] = None]
    /\ rpc' = [rpc EXCEPT ![r] = "u_exc"]
    /\ UNCHANGED <<supVars, sharedVars, prereq, fault_cap, bot_status, route, u_fatal,
                   h_fatal, h_time, h_online,
                   status, serving>>

\* bot_instance.is_ready() raises (line 492): the with block is left, the
\* lock released, and the handler of line 518 entered, which no longer
\* looks at bot_instance
UpdateRaise(r) ==
    /\ rpc[r] = "u_ready"
    /\ bot_instance[r] # None
    /\ bot_status_data_lock' = bot_status_data_lock \ {r}
    /\ bot_instance' = [bot_instance EXCEPT ![r] = None]
    /\ rpc' = [rpc EXCEPT ![r] = "u_exc"]
    /\ UNCHANGED <<supVars, sharedVars, prereq, fault_cap, bot_status, route, u_fatal,
                   h_fatal, h_time, h_online,
                   status, serving>>

\* The bot was found ready, lines 493-500 are done and line 501 or 502
\* raises: online is already True, the name or the server count is not
\* written, line 516 is not reached, the lock is released
UpdateRaiseLate(r) ==
    /\ rpc[r] = "u_ready"
    /\ IsReady(bot_instance[r])
    /\ \E line \in {501, 502} : bot_status' = StatusOnReadyUntil(bot_status, line)
    /\ bot_status_data_lock' = bot_status_data_lock \ {r}
    /\ bot_instance' = [bot_instance EXCEPT ![r] = None]
    /\ rpc' = [rpc EXCEPT ![r] = "u_exc"]
    /\ UNCHANGED <<supVars, sharedVars, prereq, fault_cap, route, u_fatal,
                   h_fatal, h_time, h_online, status, serving>>

\* Lines 520-523
UpdateException(r) ==
    /\ rpc[r] = "u_exc"
    /\ bot_status_data_lock = {}
    /\ bot_status' = StatusOnException(bot_status)
    /\ rpc' = [rpc EXCEPT ![r] = "u_done"]
    /\ UNCHANGED <<supVars, sharedVars, prereq, fault_cap, bot_status_data_lock, route, u_fatal,
                   bot_instance, h_fatal, h_time, h_online,
                   status, serving>>

\* update_bot_status() returns to the handler of the route
UpdateReturn(r) ==
    /\ rpc[r] = "u_done"
    /\ \E rt \in Routes \ {"/ping"} :
        /\ route' = [route EXCEPT ![r] = rt]
        /\ rpc' = [rpc EXCEPT ![r] =
                CASE rt = "/health" -> "h_fatal"
                  [] rt = "/ready" -> "r_read"
                  [] OTHER -> "s_read"]
    /\ u_fatal' = [u_fatal EXCEPT ![r] = None]
    /\ bot_instance' = [bot_instance EXCEPT ![r] = None]
    /\ UNCHANGED <<supVars, sharedVars, prereq, fault_cap, bot_status, bot_status_data_lock,
                   h_fatal, h_time, h_online, status, serving>>

\* Lines 550-552: the pair is read under fatal_error_lock
HealthReadFatal(r) ==
    /\ rpc[r] = "h_fatal"
    /\ fatal_error_lock = {}
    /\ h_fatal' = [h_fatal EXCEPT ![r] = fatal_error_state]
    /\ h_time' = [h_time EXCEPT ![r] = last_fatal_error_time]
    /\ rpc' = [rpc EXCEPT ![r] = "h_status"]
    /\ UNCHANGED <<supVars, sharedVars, prereq, fault_cap, bot_status, bot_status_data_lock,
                   route, u_fatal, bot_instance, h_online,
                   status, serving>>

\* Lines 567-570
OfflineDuration(offline_since) == IF offline_since # NoTime THEN offline_since ELSE 0

\* Mutant: the online test made before the fatal test
HealthStatusOnlineFirst(fatal, online, offline_duration) ==
    IF online THEN 200
    ELSE IF fatal # None THEN 503
    ELSE IF offline_duration > grace_period THEN 503
    ELSE 200

\* Lines 573-604: the status code of /health
HealthStatus(fatal, online, offline_duration) ==
    IF fatal # None THEN 503
    ELSE IF ~online /\ offline_duration > grace_period THEN 503
    ELSE 200

\* Lines 555-604: now and app_runtime are taken, bot_status is read under
\* the data lock, and the answer is computed
HealthRespond(r) ==
    /\ rpc[r] = "h_status"
    /\ bot_status_data_lock = {}
    /\ h_online' = [h_online EXCEPT ![r] = bot_status.online]
    /\ status' = [status EXCEPT ![r] =
            HealthStatus(h_fatal[r], bot_status.online,
                         OfflineDuration(bot_status.offline_since))]
    /\ rpc' = [rpc EXCEPT ![r] = "respond"]
    /\ UNCHANGED <<supVars, sharedVars, prereq, fault_cap, serving, bot_status,
                   bot_status_data_lock,
                   route, u_fatal, bot_instance, h_fatal, h_time>>

\* Lines 620-631: the status code of /ready
ReadyStatus(online) == IF online THEN 200 ELSE 503

\* Lines 617-631
ReadyRespond(r) ==
    /\ rpc[r] = "r_read"
    /\ bot_status_data_lock = {}
    /\ h_online' = [h_online EXCEPT ![r] = bot_status.online]
    /\ status' = [status EXCEPT ![r] = ReadyStatus(bot_status.online)]
    /\ rpc' = [rpc EXCEPT ![r] = "respond"]
    /\ UNCHANGED <<supVars, sharedVars, prereq, fault_cap, serving, bot_status,
                   bot_status_data_lock,
                   route, u_fatal, bot_instance, h_fatal, h_time>>

\* Lines 531-542 and 610-611: the record is copied under the data lock
StatusRespond(r) ==
    /\ rpc[r] = "s_read"
    /\ bot_status_data_lock = {}
    /\ status' = [status EXCEPT ![r] = 200]
    /\ rpc' = [rpc EXCEPT ![r] = "respond"]
    /\ UNCHANGED <<supVars, sharedVars, prereq, fault_cap, serving, bot_status,
                   bot_status_data_lock,
                   route, u_fatal, bot_instance, h_fatal, h_time, h_online>>

\* The response is sent and the thread is free again
Finish(r) ==
    /\ rpc[r] = "respond"
    /\ rpc' = [rpc EXCEPT ![r] = "idle"]
    /\ route' = [route EXCEPT ![r] = None]
    /\ h_fatal' = [h_fatal EXCEPT ![r] = None]
    /\ h_time' = [h_time EXCEPT ![r] = NoTime]
    /\ h_online' = [h_online EXCEPT ![r] = FALSE]
    /\ status' = [status EXCEPT ![r] = 0]
    /\ UNCHANGED <<supVars, sharedVars, prereq, fault_cap, serving, bot_status,
                   bot_status_data_lock,
                   u_fatal, bot_instance>>

\* ------------------------------------------------------------------------
\* Specifications
\* ------------------------------------------------------------------------
\* The state when the thread of run_discord_bot starts (lines 31-38, 51-58,
\* 220-228), with the request threads R of the web server
StartWith(R) ==
    /\ pc = "import"
    /\ i = 0
    /\ retry_count = 0
    /\ current_fatal_state = None
    /\ bot_module = FALSE
    /\ discord_module = FALSE
    /\ BotConfigurationError = "Exception"
    /\ error_type = None
    /\ fatal_error_state = None
    /\ last_fatal_error_time = NoTime
    /\ current_bot_instance = None
    /\ bot_ready = FALSE
    /\ fatal_error_lock = {}
    /\ bot_status_lock = {}
    /\ shutdown_event = FALSE
    /\ app_start_time = 0
    /\ bot_status = [online |-> FALSE, first_online_time |-> NoTime,
                     offline_since |-> NoTime, bot_name |-> "Bot Discord",
                     servers |-> 0, last_update |-> NoTime, reconnect_count |-> 0]
    /\ bot_status_data_lock = {}
    /\ rpc = [r \in R |-> "idle"]
    /\ route = [r \in R |-> None]
    /\ u_fatal = [r \in R |-> None]
    /\ bot_instance = [r \in R |-> None]
    /\ h_fatal = [r \in R |-> None]
    /\ h_time = [r \in R |-> NoTime]
    /\ h_online = [r \in R |-> FALSE]
    /\ status = [r \in R |-> 0]
    /\ serving = FALSE

Start == StartWith(Reporters)

Init ==
    /\ Start
    /\ prereq \in BOOLEAN
    /\ fault_cap = MaxRetry

SupStartup ==
    \/ ImportBot \/ ImportErr1 \/ ImportErr2
    \/ CheckToken \/ TokenErr1 \/ TokenErr2

SupRecovery ==
    \/ LoopTest \/ FatalCheck \/ Preflight \/ Handshake
    \/ PfClear1 \/ PfClear2 \/ PfEnd \/ AfterCheck

SupAttempt ==
    \/ Connect \/ RunEnds
    \/ CfgErr1 \/ CfgErr2 \/ LoginErr1 \/ LoginErr2
    \/ Transient \/ AfterExc
    \/ Finally

\* The ways out of the loop, taken only once shutdown_event is set
SupShutdown == FinallyBreak \/ Stopped

\* The running bot and the clock
BotEnvironment == BotReady \/ RunElapse

Environment == Signal \/ BotEnvironment

\* time.sleep(1) suspends the thread for at least one second: k seconds
\* rounded up to a multiple of Quantum
Quantized(k) == ((k + Quantum - 1) \div Quantum) * Quantum

\* Lines 140-143 / 196-199 with all iterations of the loop in one step
FatalWaitSleepAll == SleepLoop("fatal_wait", i, Quantized(i))
BackoffSleepAll == SleepLoop("backoff", i, Quantized(i))

Reporter ==
    \E r \in Reporters :
        \/ StartRequest(r) \/ UpdateReadFatal(r) \/ UpdateLock(r)
        \/ UpdateLockInstance(r) \/ UpdateReadInstance(r)
        \/ UpdateWrite(r) \/ UpdateRaise(r) \/ UpdateRaiseLate(r)
        \/ UpdateException(r) \/ UpdateReturn(r)
        \/ HealthReadFatal(r) \/ HealthRespond(r) \/ ReadyRespond(r)
        \/ StatusRespond(r) \/ Finish(r)

\* The supervisor thread with every sleep loop run in one step
SupChunked ==
    \/ SupStartup \/ SupRecovery \/ SupAttempt
    \/ FatalWaitSleepAll \/ FatalWaitExit \/ BackoffSleepAll \/ BackoffExit

\* Supervisor and reporter threads together while no shutdown is signalled
Next ==
    \/ SupChunked
    \/ BotEnvironment
    \/ MainServe
    \/ Reporter

\* The prerequisites stay as they are at the start: every check may fail or pass
InitFull ==
    /\ Start
    /\ prereq = FALSE
    /\ fault_cap = MaxRetryFull

Spec == InitFull /\ [][Next]_vars

\* The supervisor alone, second by second, with shutdown and repair
NextSup ==
    \/ SupStartup \/ SupRecovery \/ SupAttempt \/ SupShutdown
    \/ FatalWaitSleep \/ FatalWaitExit \/ BackoffSleep \/ BackoffExit
    \/ Environment \/ Repair

SpecSup == Init /\ [][NextSup]_vars

\* The supervisor alone while no shutdown is signalled; the deployment may be
\* repaired.  The thread of run_discord_bot is scheduled again and again, and
\* the blocking calls it makes (sleep, run, the handshake) return.
NextLive ==
    \/ SupChunked
    \/ BotEnvironment
    \/ Repair

SpecLive == InitFull /\ [][NextLive]_vars /\ WF_vars(SupChunked)

\* Requests to /ping only (lines 633-640)
PingTraffic ==
    \E r \in Reporters :
        \/ StartRequest(r) /\ route'[r] = "/ping"
        \/ Finish(r)

\* The whole process with the shutdown signal: the supervisor thread, main
\* starting the web server, and clients that keep sending /ping.  Every
\* thread is scheduled again and again and blocking calls return.
NextStop ==
    \/ SupChunked \/ SupShutdown
    \/ Signal
    \/ BotEnvironment
    \/ MainServe
    \/ PingTraffic

SpecStop ==
    /\ InitFull /\ [][NextStop]_vars
    /\ WF_vars(SupChunked \/ SupShutdown)
    /\ WF_vars(MainServe)
    /\ WF_vars(PingTraffic)

\* ------------------------------------------------------------------------
\* The locks (lines 35-37)
\* ------------------------------------------------------------------------
\* Every request thread of serve(..., threads=4), line 656
LockThreads == 1..threads

\* The lock the next statement of the supervisor acquires, if any: the with
\* statements of lines 66, 74, 82, 161, 172 (fatal_error_lock) and of lines
\* 153, 202 (bot_status_lock)
SupNeeds ==
    IF pc \in {"import_err", "token_err", "fatal_check", "cfg_err", "login_err"}
    THEN {"fatal_error_lock"}
    ELSE IF \/ pc \in {"finally", "finally_break"}
            \/ pc = "connect" /\ bot_module /\ discord_module
         THEN {"bot_status_lock"}
         ELSE {}

\* The same for a request thread: lines 474, 550 (fatal_error_lock), lines
\* 478, 520, 531, 562, 610, 617 (bot_status_data_lock), line 489
\* (bot_status_lock)
ReporterNeeds(r) ==
    IF rpc[r] \in {"u_fatal", "h_fatal"} THEN {"fatal_error_lock"}
    ELSE IF rpc[r] \in {"u_lock", "u_exc", "h_status", "r_read", "s_read"}
         THEN {"bot_status_data_lock"}
         ELSE IF rpc[r] = "u_inst" THEN {"bot_status_lock"} ELSE {}

Needs(t) == IF t = Sup THEN SupNeeds ELSE ReporterNeeds(t)

\* threading.Lock: the thread inside the with block, if any
Holders(l) ==
    CASE l = "fatal_error_lock" -> fatal_error_lock
      [] l = "bot_status_lock" -> bot_status_lock
      [] l = "bot_status_data_lock" -> bot_status_data_lock

\* t is blocked in acquire() by a thread of S.  threading.Lock is not
\* reentrant: a thread that acquires a lock it holds blocks itself.
BlockedBy(t, S) == \E l \in Needs(t) : Holders(l) \cap S # {}

\* A sleep loop that takes long enough for the recorded error to become old
LongSleep == recovery_threshold + 1
FatalWaitSleepLong == SleepLoop("fatal_wait", i, LongSleep)

\* The supervisor thread and the four request threads of a deployment whose
\* imports, token and login are fine and whose bot ends a run by returning or
\* with a configuration error; every request is one to /api/status
\* (update_bot_status and a copy of the record)
InitLocks ==
    /\ StartWith(LockThreads)
    /\ prereq = TRUE
    /\ fault_cap = 0

NextLocks ==
    \/ ImportBot \/ CheckToken
    \/ SupRecovery
    \/ Connect \/ RunEnds \/ CfgErr1 \/ CfgErr2 \/ Finally
    \/ FatalWaitSleepLong \/ FatalWaitExit
    \/ MainServe
    \/ \E r \in LockThreads :
        \/ (StartRequest(r) /\ route'[r] # "/ping")
        \/ UpdateReadFatal(r) \/ UpdateLock(r)
        \/ UpdateLockInstance(r) \/ UpdateReadInstance(r)
        \/ UpdateWrite(r) \/ UpdateRaise(r) \/ UpdateException(r)
        \/ (UpdateReturn(r) /\ route'[r] = "/api/status")
        \/ StatusRespond(r) \/ Finish(r)

SpecLocks == InitLocks /\ [][NextLocks]_vars

\* Any step of the supervisor thread, second by second
SupStep ==
    \/ SupStartup \/ SupRecovery \/ SupAttempt \/ SupShutdown
    \/ FatalWaitSleep \/ FatalWaitExit \/ BackoffSleep \/ BackoffExit

\* The supervisor alone, second by second, with the shutdown signal.  The
\* thread is scheduled again and again and every blocking call it makes
\* (sleep, the handshake, the bot's run) returns.
SpecHalt == InitFull /\ [][NextSup]_vars /\ WF_vars(SupStep)

\* ------------------------------------------------------------------------
\* Claims
\* ------------------------------------------------------------------------
FatalSet == fatal_error_state # None

\* now - fatalErrorSince <= 600 for the recorded fatal error
FatalRecent ==
    /\ FatalSet
    /\ last_fatal_error_time # NoTime
    /\ last_fatal_error_time <= recovery_threshold

\* C1: while a fatal error is recorded and no more than 600 s old, the
\* supervisor is neither creating / running a bot nor in the recovery
\* preflight (re-import, token check, test bot, login handshake).
C1_NoAttemptWhileFatalRecent ==
    FatalRecent => pc \notin {"connect", "run", "preflight", "handshake",
                              "pf_clear1", "pf_clear2"}

\* The supervisor went through the fatal check with an invalid-token error
\* exactly 600 s old and is waiting again instead of recovering
C1_Witness ==
    /\ fatal_error_state = "Invalid token"
    /\ last_fatal_error_time = recovery_threshold
    /\ pc = "fatal_wait"
    /\ i = fatal_wait_seconds

\* C2: while the supervisor sleeps (backoff sleep or fatal wait) with a fatal
\* error recorded, no bot instance is published.
C2_NoInstanceWhileFatalSleeping ==
    (pc \in {"backoff", "fatal_wait"} /\ FatalSet) => current_bot_instance = None

\* C3: once a connection attempt has ended, the published instance is cleared
\* before the backoff sleep begins: during the backoff sleep a reader finds None.
C3_InstanceClearedBeforeBackoff ==
    pc = "backoff" => current_bot_instance = None

\* C8: each transient failure adds exactly one to retry_count, the un-jittered
\* delay does not decrease with it and stays within max_delay, and the number
\* of seconds slept is at most max_delay * 1.2 = 360.
C8_BackoffMonotoneBounded ==
    [][ /\ (pc = "transient" /\ pc' = "after_exc") =>
            /\ retry_count' = retry_count + 1
            /\ WaitTime(retry_count') >= WaitTime(retry_count)
            /\ WaitTime(retry_count') <= max_delay
        /\ (retry_count' # retry_count) =>
            \/ retry_count' = retry_count + 1
            \/ pc = "pf_clear2" /\ retry_count' = 0
        /\ (pc = "after_exc" /\ pc' = "backoff") =>
            /\ i' <= (max_delay * 120) \div 100
            /\ i' * 100 <= WaitTime(retry_count) * 120
            /\ i' * 100 > WaitTime(retry_count) * 80 - 100
      ]_vars

\* The ninth consecutive transient failure is backed off with the longest sleep
C8_Witness ==
    /\ pc = "backoff"
    /\ retry_count = 9
    /\ i = 360
    /\ ~FatalSet

\* C9: the supervisor thread leaves its loop only after the shutdown signal,
\* and until it has ended it always has a next step to take (it is blocked
\* at most in the bot's run, which the environment ends).
C9_LoopEndsOnlyOnShutdown ==
    /\ pc \in {"finally_break", "stopped", "done"} => shutdown_event
    /\ pc \notin {"run", "done"} => ENABLED SupStep

\* After a start without token, the loop reached a recovery preflight
C9_Witness ==
    /\ fatal_error_state = "Token Discord manquant"
    /\ pc = "preflight"
    /\ ~shutdown_event

\* A /health request has sampled the fatal pair (lines 550-552)
HealthSampled(r) == route[r] = "/health" /\ rpc[r] \in {"h_status", "respond"}

\* C4: /health answers 503 whenever the fatal error it sampled is set,
\* whatever bot_status.online and the offline duration are.
C4_HealthUnhealthyOnFatal ==
    \A r \in Reporters :
        (route[r] = "/health" /\ rpc[r] = "respond" /\ h_fatal[r] # None)
            => status[r] = 503

\* /health answered 503 on a fatal error although the record still said online
C4_Witness ==
    \E r \in Reporters :
        /\ route[r] = "/health" /\ rpc[r] = "respond"
        /\ h_fatal[r] # None
        /\ h_online[r]
        /\ status[r] = 503

\* C5: with no fatal error sampled and the bot offline, /health answers 200
\* up to 120 s offline and 503 beyond, the offline time of a bot that was
\* never online being counted from the start of the process.
C5_OfflineCountedFromStart ==
    [][ \A r \in Reporters :
          ( /\ rpc[r] = "h_status" /\ rpc'[r] = "respond"
            /\ h_fatal[r] = None
            /\ ~bot_status.online
            /\ bot_status.first_online_time = NoTime )
          => status'[r] = IF app_start_time > grace_period THEN 503 ELSE 200
      ]_vars

\* C6: /ready never answers 200 while a fatal error is recorded.
C6_ReadyNeverOnFatal ==
    [][ \A r \in Reporters :
          (rpc[r] = "r_read" /\ rpc'[r] = "respond" /\ status'[r] = 200)
          => fatal_error_state = None
      ]_vars

\* C7: the pair (fatal_error_state, last_fatal_error_time) is set and
\* cleared as a whole under fatal_error_lock: a reader that samples it under
\* the lock finds both set or both cleared, and after a successful preflight
\* the pair is cleared and retry_count is 0 before the lock is released.
C7_FatalPairAtomic ==
    /\ \A r \in Reporters :
        HealthSampled(r) => ((h_fatal[r] = None) <=> (h_time[r] = NoTime))
    /\ fatal_error_lock = {} =>
            ((fatal_error_state = None) <=> (last_fatal_error_time = NoTime))
    /\ (pc = "pf_end" /\ fatal_error_state = None) =>
            /\ last_fatal_error_time = NoTime
            /\ retry_count = 0
            /\ fatal_error_lock = {Sup}

\* A request whose status refresh still saw the invalid-token error sampled
\* the pair right after the successful preflight and found it cleared
C7_Witness ==
    \E r \in Reporters :
        /\ HealthSampled(r) /\ rpc[r] = "h_status"
        /\ h_fatal[r] = None /\ h_time[r] = NoTime
        /\ bot_status.bot_name = "Invalid token"
        /\ pc = "after_check" /\ current_fatal_state = None

\* C10: once the prerequisites hold (and no shutdown is signalled), a recorded
\* fatal error is eventually cleared and a connection attempt started.
C10_RecoveryEventually ==
    (FatalSet /\ prereq) ~> (~FatalSet /\ pc = "run")

\* C11: with the token missing at startup, /health answers 503 to every
\* request that samples the recorded error, and the supervisor attempts its
\* first recovery at second 600 after the error was recorded, not later: it
\* never passes the fatal check without a preflight once the error is 600 s old.
C11_RecoveryAtSecond600 ==
    [][ /\ \A r \in Reporters :
            ( /\ rpc[r] = "h_status" /\ rpc'[r] = "respond"
              /\ h_fatal[r] = "Token Discord manquant" )
            => status'[r] = 503
        /\ ( /\ pc = "fatal_check" /\ pc' = "after_check"
             /\ fatal_error_state = "Token Discord manquant" )
           => last_fatal_error_time < recovery_threshold
      ]_vars
\* C12: after SIGTERM / SIGINT has set shutdown_event, the web server
\* eventually stops serving requests (and the process can exit).
C12_ServingStopsAfterSignal ==
    shutdown_event ~> ~serving
\* The fields of the record other than last_update
Snapshot(st) ==
    <<st.online, st.first_online_time, st.offline_since, st.bot_name, st.servers,
      st.reconnect_count>>

\* C13: a second status refresh that finds the same fatal state, the same
\* instance and the same readiness as the one just made leaves online,
\* first_online_time, offline_since, bot_name, servers and reconnect_count
\* as they are.
C13_RefreshIdempotent ==
    [][ \A r \in Reporters :
          /\ (rpc[r] = "u_lock" /\ rpc'[r] = "u_done") =>
                Snapshot(StatusOnFatal(bot_status', u_fatal[r])) = Snapshot(bot_status')
          /\ (rpc[r] = "u_ready" /\ rpc'[r] = "u_done") =>
                Snapshot(IF IsReady(bot_instance[r])
                         THEN StatusOnReady(bot_status')
                         ELSE StatusOnNotReady(bot_status')) = Snapshot(bot_status')
          /\ (rpc[r] = "u_exc" /\ rpc'[r] = "u_done") =>
                Snapshot(StatusOnException(bot_status')) = Snapshot(bot_status')
      ]_vars

\* A refresh has just found the bot offline after it had been online, and
\* counted the reconnect
C13_Witness ==
    \E r \in Reporters :
        /\ rpc[r] = "u_done"
        /\ ~bot_status.online
        /\ bot_status.offline_since = 0
        /\ bot_status.first_online_time # NoTime
        /\ bot_status.reconnect_count = 1

\* C14: a normal return of run without a shutdown request is handled like a
\* transient failure (retry_count incremented, backoff sleep before the next
\* attempt): the supervisor never goes from the returned run straight to the
\* end of the iteration and on to the next attempt.
C14_NormalReturnBacksOff ==
    [][ (pc = "run" /\ pc' = "finally") => shutdown_event ]_vars

\* C15: an exception of a connection attempt that is neither a configuration
\* error nor a LoginFailure is handled as a transient failure: retry_count is
\* incremented and fatal_error_state is left alone, in every history.
C15_OtherExceptionIsTransient ==
    [][ (error_type = "Other" /\ error_type' # "Other") =>
            /\ retry_count' = retry_count + 1
            /\ fatal_error_state' = fatal_error_state
      ]_vars

\* C16: a configuration error records "Configuration error", a LoginFailure
\* records "Invalid token"; either way last_fatal_error_time is set to now,
\* retry_count stays as it is, and the next iteration does not connect.
C16_FatalKindRecorded ==
    [][ /\ (error_type = "BotConfigurationError" /\ error_type' # error_type) =>
            /\ fatal_error_state' = "Configuration error"
            /\ retry_count' = retry_count
        /\ (error_type = "LoginFailure" /\ error_type' # error_type) =>
            /\ fatal_error_state' = "Invalid token"
            /\ retry_count' = retry_count
        /\ (pc \in {"cfg_err2", "login_err2"} /\ pc' # pc) =>
            /\ last_fatal_error_time' = 0
            /\ retry_count' = retry_count
        /\ (pc = "after_check" /\ pc' = "connect") => fatal_error_state = None
      ]_vars

\* C17: retry_count counts the transient failures since the last successful
\* connection: a transient failure that ends an attempt in which the bot was
\* ready finds retry_count = 0 and is backed off with retry_count = 1.
C17_RetryCountSinceLastSuccess ==
    [][ (pc = "run" /\ bot_ready /\ pc' = "transient") => retry_count = 0 ]_vars

\* C18: a preflight that fails leaves fatal_error_state, last_fatal_error_time
\* and retry_count as they were, and the supervisor goes on to the fatal wait,
\* not to a connection attempt.
C18_FailedPreflightChangesNothing ==
    [][ /\ (pc \in {"preflight", "handshake"} /\ pc' = "pf_end") =>
            /\ fatal_error_state' = fatal_error_state
            /\ last_fatal_error_time' = last_fatal_error_time
            /\ retry_count' = retry_count
        /\ (pc = "pf_end" /\ FatalSet /\ pc' # pc) =>
            /\ fatal_error_state' = fatal_error_state
            /\ last_fatal_error_time' = last_fatal_error_time
            /\ retry_count' = retry_count
        /\ (pc = "after_check" /\ FatalSet /\ pc' # pc) => pc' = "fatal_wait"
      ]_vars

\* The login handshake of a preflight has failed after two transient failures
\* and an invalid token: the error and the count are still there
C18_Witness ==
    /\ pc = "fatal_wait"
    /\ i = fatal_wait_seconds
    /\ fatal_error_state = "Invalid token"
    /\ last_fatal_error_time > recovery_threshold
    /\ retry_count = 2

\* C19: for one recorded fatal error exactly one preflight is made once the
\* error is more than 600 s old: no preflight is started for an error that
\* was already past the threshold at the previous fatal check, one fatal wait
\* (30 s) earlier.
C19_OnePreflightPerFatalError ==
    [][ (pc = "fatal_check" /\ pc' = "preflight") =>
            last_fatal_error_time <= recovery_threshold + fatal_wait_seconds
      ]_vars

\* C19 as amended: while a fatal error persists and is more than 600 s old,
\* every loop iteration makes one preflight: each fatal check past the
\* threshold starts a preflight, a preflight starts nowhere else, and a failed
\* one is followed by a whole fatal wait before the next.
C19_PreflightEveryIteration ==
    [][ /\ ( /\ pc = "fatal_check" /\ pc' # pc
             /\ FatalSet /\ last_fatal_error_time > recovery_threshold )
           => pc' = "preflight"
        /\ (pc' = "preflight" /\ pc # "preflight") => pc = "fatal_check"
        /\ (pc = "after_check" /\ FatalSet /\ pc' # pc) =>
              (pc' = "fatal_wait" /\ i' = fatal_wait_seconds)
      ]_vars

\* The third preflight for the same missing token, 660 s after it was recorded
C19_Witness ==
    /\ pc = "preflight"
    /\ fatal_error_state = "Token Discord manquant"
    /\ last_fatal_error_time = recovery_threshold + 2 * fatal_wait_seconds

\* C20: no thread, supervisor or reporter, holds more than one of
\* fatal_error_lock, bot_status_lock and bot_status_data_lock at a time.
C20_AtMostOneLockPerThread ==
    \A t \in Reporters \cup {Sup} :
        /\ ~(t \in fatal_error_lock /\ t \in bot_status_lock)
        /\ ~(t \in fatal_error_lock /\ t \in bot_status_data_lock)
        /\ ~(t \in bot_status_lock /\ t \in bot_status_data_lock)

\* C21: no set of threads (the supervisor and the request threads, up to
\* four of them busy) is ever such that each of them waits for a lock held by
\* a thread of the set.
C21_NoDeadlock ==
    \A S \in SUBSET (DOMAIN rpc \cup {Sup}) :
        S # {} => \E t \in S : ~BlockedBy(t, S)

\* All four request threads are busy and three of them blocked: the
\* supervisor is in the login handshake of the preflight with fatal_error_lock
\* held and one request waits for it; a request holds bot_status_data_lock and
\* bot_status_lock and two others wait for the data lock
C21_Witness ==
    /\ pc = "handshake"
    /\ fatal_error_lock = {Sup}
    /\ Cardinality({r \in DOMAIN rpc : BlockedBy(r, {Sup})}) = 1
    /\ \E h \in DOMAIN rpc :
        /\ rpc[h] = "u_inst_read"
        /\ bot_status_lock = {h}
        /\ Cardinality({r \in DOMAIN rpc : BlockedBy(r, {h})}) = 2

\* C22: the supervisor holds neither fatal_error_lock nor bot_status_lock
\* while it is in a blocking operation: the bot's run, the login handshake of
\* the preflight, or a sleep.
C22_NoLockAcrossBlocking ==
    pc \in {"run", "handshake", "fatal_wait", "backoff"} =>
        (Sup \notin fatal_error_lock /\ Sup \notin bot_status_lock)

\* C23: with shutdown_event set, a supervisor in a between-attempt sleep
\* sleeps no further second (the sleep under way when the signal arrived is
\* the last one) and leaves the sleep loop; from there, and from a run that
\* returns, it goes out of the loop without another fatal check, preflight or
\* connection attempt; and, the thread being scheduled and its blocking calls
\* returning, the loop always ends once shutdown_event is set.
C23_ShutdownEndsTheLoop ==
    /\ [][ /\ (shutdown_event /\ pc \in BetweenAttempts) =>
                /\ pc' \in {pc, "finally"}
                /\ pc' = pc => i' = i
                /\ last_fatal_error_time' = last_fatal_error_time
                /\ app_start_time' = app_start_time
           /\ (shutdown_event /\ pc \in WindingDown) =>
                (shutdown_event' /\ pc' \in WindingDown)
         ]_vars
    /\ (shutdown_event ~> pc = "done")

\* The fatal wait for a missing token was cut short after ten seconds by the
\* signal and the thread has ended
C23_Witness ==
    /\ shutdown_event
    /\ pc = "done"
    /\ fatal_error_state = "Token Discord manquant"
    /\ last_fatal_error_time = 10

C25_OnlineRecordConsistent ==
    bot_status_data_lock = {} =>
        (bot_status.online =>
            /\ bot_status.offline_since = NoTime
            /\ bot_status.first_online_time # NoTime)

\* A refresh found the bot ready, set online and raised at line 501 before
\* the name was written: the record is online, the lock is free and the
\* exception handler has not run yet
C25_Witness ==
    /\ bot_status_data_lock = {}
    /\ bot_status.online
    /\ bot_status.bot_name = "Bot Discord"
    /\ \E r \in DOMAIN rpc : rpc[r] = "u_exc"

====
